---- MODULE Spec2Model ----
(***************************************************************************)
(* A model of rollbackcontext.RollbackContext                              *)
(* (src/rollbackcontext/__init__.py): a context manager that records undo  *)
(* functions in a deque and plays them back in __exit__.                   *)
(*                                                                         *)
(* Every variable is a function of the RollbackContext instance.  An Undo  *)
(* record is an object on the heap: `undos[s]` is the sequence of the Undo *)
(* objects instance s has allocated, and a reference to an Undo is its     *)
(* index in that sequence.  `_finally[s]` is the deque of references, and  *)
(* the handle push returns is the same reference.                          *)
(***************************************************************************)
EXTENDS Naturals, Sequences, FiniteSets

\* Most registrations one instance receives in a run of the model.
MaxUndo == 3

\* Most registrations two instances in use receive together.
MaxUndoPair == 2

\* The RollbackContext instances.
Scopes == {1, 2}

\* The exception classes of the model: FirstError and SecondError derive
\* from Exception (the tests' classes), KeyboardInterrupt from BaseException
\* only.  IsException is issubclass(cls, Exception).
ExcClasses == {"FirstError", "SecondError", "KeyboardInterrupt"}

IsException(cls) == cls \in {"FirstError", "SecondError"}

\* A raised exception: its class and the Undo that raised it (0: the body of
\* the with statement).  NoExc is Python's None in exc_type / undoExcInfo.
NoExc == [cls |-> "None", by |-> 0]

BlockExc == [cls |-> "FirstError", by |-> 0]

\* The callables the tests register: _append records its call, _raise
\* raises an instance of the class it is given.
Callables == {[undo |-> "_append", args |-> "None"]}
             \cup {[undo |-> "_raise", args |-> c] : c \in ExcClasses \ {"FirstError"}}

VARIABLES
    pc,           \* where the with statement of each instance is
    undos,        \* heap: the Undo objects each instance has created
    _finally,     \* RollbackContext._finally: deque of Undo references
    exc_type,     \* __exit__'s exc_type argument
    i,            \* how many entries of _finally the for loop has taken
    undoExcInfo,  \* __exit__'s local undoExcInfo
    raised,       \* what the with statement raised to its caller
    r,            \* the calls made to undo functions, in order (the tests' _r)
    toTops,       \* history: toTop of each _push call, in call order
    committed     \* history: number of _push calls before the last commitAll

vars == <<pc, undos, _finally, exc_type, i, undoExcInfo, raised, r, toTops, committed>>

----------------------------------------------------------------------------
\* The expressions of the code, as operators.

\* deque.appendleft / deque.append, as _push chooses between them.
PushBottomAlways(q, u, toTop) == Append(q, u)

PushInverted(q, u, toTop) == IF toTop THEN Append(q, u) ELSE <<u>> \o q

PushMissingElse(q, u, toTop) == IF toTop THEN Append(<<u>> \o q, u) ELSE Append(q, u)

Pushed(q, u, toTop) == IF toTop THEN <<u>> \o q ELSE Append(q, u)

\* deque.clear in commitAll.
ClearNothing(q) == q

Cleared(q) == <<>>

\* The test of the for loop in __exit__ that skips an auto-committing undo.
SkipWhenRaised(et, autoCommit) == et # NoExc /\ autoCommit

Skips(et, autoCommit) == et = NoExc /\ autoCommit

\* `except Exception` in __exit__: which raised classes the handler takes.
Catches(cls) == IsException(cls)

\* "keep the earliest exception info".
Earliest(info, e) == IF info = NoExc THEN e ELSE info

\* What the with statement raises once the for loop is over: __exit__
\* raises undoExcInfo when exc_type is None, and otherwise returns None, on
\* which Python re-raises the exception of the body.
Resolved(et, info) == IF et = NoExc /\ info # NoExc THEN info ELSE et

\* What calling an Undo does: the exception it raises, NoExc if it returns.
Call(u, ref) == IF u.undo = "_raise" THEN [cls |-> u.args, by |-> ref] ELSE NoExc

----------------------------------------------------------------------------
\* RollbackContext.__init__ has run for the instances that are "open".

Init ==
    /\ pc = [s \in Scopes |-> IF s = 1 THEN "open" ELSE "none"]
    /\ undos = [s \in Scopes |-> <<>>]
    /\ _finally = [s \in Scopes |-> <<>>]
    /\ exc_type = [s \in Scopes |-> NoExc]
    /\ i = [s \in Scopes |-> 0]
    /\ undoExcInfo = [s \in Scopes |-> NoExc]
    /\ raised = [s \in Scopes |-> NoExc]
    /\ r = [s \in Scopes |-> <<>>]
    /\ toTops = [s \in Scopes |-> <<>>]
    /\ committed = [s \in Scopes |-> 0]

\* Two instances in use, both constructed.
InitPair ==
    /\ pc = [s \in Scopes |-> "open"]
    /\ undos = [s \in Scopes |-> <<>>]
    /\ _finally = [s \in Scopes |-> <<>>]
    /\ exc_type = [s \in Scopes |-> NoExc]
    /\ i = [s \in Scopes |-> 0]
    /\ undoExcInfo = [s \in Scopes |-> NoExc]
    /\ raised = [s \in Scopes |-> NoExc]
    /\ r = [s \in Scopes |-> <<>>]
    /\ toTops = [s \in Scopes |-> <<>>]
    /\ committed = [s \in Scopes |-> 0]

\* Whether the bound on registrations leaves room for one more: MaxUndo for
\* one instance in use, MaxUndoPair for two together.
RECURSIVE Allocated(_)
Allocated(S) ==
    IF S = {} THEN 0
    ELSE LET s == CHOOSE x \in S : TRUE IN Len(undos[s]) + Allocated(S \ {s})

Room(s) ==
    IF \A t \in Scopes : pc[t] # "none"
    THEN Allocated(Scopes) < MaxUndoPair
    ELSE Len(undos[s]) < MaxUndo

\* _push with _finally a class attribute, one deque shared by the instances.
_pushShared(s, func, toTop) ==
    /\ pc[s] = "open"
    /\ Room(s)
    /\ LET ref == Len(undos[s]) + 1 IN
        /\ undos' = [undos EXCEPT ![s] =
                Append(@, [undo |-> func.undo, autoCommit |-> FALSE, args |-> func.args])]
        /\ _finally' = [t \in Scopes |-> Pushed(_finally[t], ref, toTop)]
    /\ toTops' = [toTops EXCEPT ![s] = Append(@, toTop)]
    /\ UNCHANGED <<pc, exc_type, i, undoExcInfo, raised, r, committed>>

\* _push: allocate an Undo with autoCommit [False], put it at one end.
_push(s, func, toTop) ==
    /\ pc[s] = "open"
    /\ Room(s)
    /\ LET ref == Len(undos[s]) + 1 IN
        /\ undos' = [undos EXCEPT ![s] =
                Append(@, [undo |-> func.undo, autoCommit |-> FALSE, args |-> func.args])]
        /\ _finally' = [_finally EXCEPT ![s] = Pushed(@, ref, toTop)]
    /\ toTops' = [toTops EXCEPT ![s] = Append(@, toTop)]
    /\ UNCHANGED <<pc, exc_type, i, undoExcInfo, raised, r, committed>>

push(s) == \E func \in Callables : _push(s, func, TRUE)

pushBottom(s) == \E func \in Callables : _push(s, func, FALSE)

\* Undo.setAutoCommit on a handle the body holds.
setAutoCommitShared(s) ==
    /\ pc[s] = "open"
    /\ \E ref \in 1..Len(undos[s]) :
        undos' = [undos EXCEPT ![s] = [n \in 1..Len(@) |-> [@[n] EXCEPT !.autoCommit = TRUE]]]
    /\ UNCHANGED <<pc, _finally, exc_type, i, undoExcInfo, raised, r, toTops, committed>>

setAutoCommit(s) ==
    /\ pc[s] = "open"
    /\ \E ref \in 1..Len(undos[s]) :
        undos' = [undos EXCEPT ![s][ref].autoCommit = TRUE]
    /\ UNCHANGED <<pc, _finally, exc_type, i, undoExcInfo, raised, r, toTops, committed>>

commitAll(s) ==
    /\ pc[s] = "open"
    /\ _finally' = [_finally EXCEPT ![s] = Cleared(@)]
    /\ committed' = [committed EXCEPT ![s] = Len(undos[s])]
    /\ UNCHANGED <<pc, undos, exc_type, i, undoExcInfo, raised, r, toTops>>

\* The with statement calls __exit__: the body has returned (et = NoExc) or
\* raised (et = BlockExc).  undoExcInfo = None, the for loop starts.
ExitEnter(s) ==
    /\ pc[s] = "open"
    /\ \E et \in {NoExc, BlockExc} : exc_type' = [exc_type EXCEPT ![s] = et]
    /\ pc' = [pc EXCEPT ![s] = "draining"]
    /\ i' = [i EXCEPT ![s] = 0]
    /\ undoExcInfo' = [undoExcInfo EXCEPT ![s] = NoExc]
    /\ UNCHANGED <<undos, _finally, raised, r, toTops, committed>>

\* One turn of the for loop over self._finally.
ExitLoop(s) ==
    /\ pc[s] = "draining"
    /\ i[s] < Len(_finally[s])
    /\ i' = [i EXCEPT ![s] = @ + 1]
    /\ LET ref == _finally[s][i[s] + 1]
           u == undos[s][ref]
           e == Call(u, ref)
       IN IF Skips(exc_type[s], u.autoCommit)
          THEN UNCHANGED <<pc, undoExcInfo, raised, r>>
          ELSE /\ r' = [r EXCEPT ![s] = Append(@, ref)]
               /\ IF e = NoExc
                  THEN UNCHANGED <<pc, undoExcInfo, raised>>
                  ELSE IF Catches(e.cls)
                  THEN /\ undoExcInfo' = [undoExcInfo EXCEPT ![s] = Earliest(@, e)]
                       /\ UNCHANGED <<pc, raised>>
                  ELSE \* not an Exception: it leaves __exit__ at once
                       /\ pc' = [pc EXCEPT ![s] = "closed"]
                       /\ raised' = [raised EXCEPT ![s] = e]
                       /\ UNCHANGED undoExcInfo
    /\ UNCHANGED <<undos, _finally, exc_type, toTops, committed>>

\* The for loop is over: raise undoExcInfo, or return None.
ExitReturnDrained(s) ==
    /\ pc[s] = "draining"
    /\ i[s] = Len(_finally[s])
    /\ pc' = [pc EXCEPT ![s] = "closed"]
    /\ raised' = [raised EXCEPT ![s] = Resolved(exc_type[s], undoExcInfo[s])]
    /\ _finally' = [_finally EXCEPT ![s] = <<>>]
    /\ UNCHANGED <<undos, exc_type, i, undoExcInfo, r, toTops, committed>>

ExitReturn(s) ==
    /\ pc[s] = "draining"
    /\ i[s] = Len(_finally[s])
    /\ pc' = [pc EXCEPT ![s] = "closed"]
    /\ raised' = [raised EXCEPT ![s] = Resolved(exc_type[s], undoExcInfo[s])]
    /\ UNCHANGED <<undos, _finally, exc_type, i, undoExcInfo, r, toTops, committed>>

Next ==
    \E s \in Scopes :
        \/ push(s)
        \/ pushBottom(s)
        \/ setAutoCommit(s)
        \/ commitAll(s)
        \/ ExitEnter(s)
        \/ ExitLoop(s)
        \/ ExitReturn(s)

Spec == Init /\ [][Next]_vars

SpecPair == InitPair /\ [][Next]_vars

----------------------------------------------------------------------------
\* Vocabulary of the properties.

RECURSIVE Reverse(_)
Reverse(q) == IF q = <<>> THEN <<>> ELSE Append(Reverse(Tail(q)), Head(q))

Range(q) == {q[n] : n \in 1..Len(q)}

\* The references instance s registered with toTop = b, in registration order.
RECURSIVE RegisteredUpTo(_, _, _)
RegisteredUpTo(s, b, n) ==
    IF n = 0 THEN <<>>
    ELSE IF toTops[s][n] = b THEN Append(RegisteredUpTo(s, b, n - 1), n)
    ELSE RegisteredUpTo(s, b, n - 1)

Registered(s, b) == RegisteredUpTo(s, b, Len(toTops[s]))

\* Where reference x stands in sequence q.
Pos(q, x) == CHOOSE n \in 1..Len(q) : q[n] = x

Before(q, x, y) == x \in Range(q) /\ y \in Range(q) => Pos(q, x) < Pos(q, y)

Closed(s) == pc[s] = "closed"

NoFlag(s) == \A n \in 1..Len(undos[s]) : ~undos[s][n].autoCommit

NoFailing(s) == \A n \in 1..Len(undos[s]) : undos[s][n].undo # "_raise"

Fails(s, ref) == Call(undos[s][ref], ref) # NoExc

\* The invoked undos of s that raised, in the order they were invoked.
RECURSIVE FailedIn(_, _)
FailedIn(s, q) ==
    IF q = <<>> THEN <<>>
    ELSE IF Fails(s, Head(q)) THEN <<Head(q)>> \o FailedIn(s, Tail(q))
    ELSE FailedIn(s, Tail(q))

----------------------------------------------------------------------------
\* C1: after push calls only (no pushBottom, no commitAll, no auto-commit
\* flag, no failing undo) and a clean exit, the undos were invoked in
\* exactly the reverse of the order they were pushed in.
C1_ReverseOfPushOrder ==
    \A s \in Scopes :
        (/\ Closed(s) /\ exc_type[s] = NoExc
         /\ committed[s] = 0 /\ NoFlag(s) /\ NoFailing(s)
         /\ \A n \in 1..Len(toTops[s]) : toTops[s][n])
        => r[s] = Reverse([n \in 1..Len(undos[s]) |-> n])

C1_Witness ==
    \E s \in Scopes :
        /\ Closed(s) /\ exc_type[s] = NoExc /\ committed[s] = 0
        /\ NoFlag(s) /\ NoFailing(s)
        /\ toTops[s] = <<TRUE, TRUE, TRUE>>
        /\ r[s] = <<3, 2, 1>>

\* C2: after push and pushBottom calls only (no commitAll, no auto-commit
\* flag), playback invokes all the push-registered undos, in reverse
\* registration order, and then all the pushBottom-registered ones, in
\* registration order.
C2_TopsThenBottoms ==
    \A s \in Scopes :
        (Closed(s) /\ committed[s] = 0 /\ NoFlag(s))
        => r[s] = Reverse(Registered(s, TRUE)) \o Registered(s, FALSE)

\* C3: an exit entered with an exception of the body raises that exception
\* to the caller, whatever the undos raise.
C3_IncomingFailureWins ==
    \A s \in Scopes :
        (Closed(s) /\ exc_type[s] # NoExc) => raised[s] = exc_type[s]

\* C4: an undo that raises, whatever it raises, never keeps a later undo
\* that auto-commit does not skip from being invoked before the exit
\* completes.
C4_FailureNeverStopsPlayback ==
    \A s \in Scopes :
        Closed(s) =>
            \A p, q \in 1..Len(_finally[s]) :
                (/\ p < q
                 /\ _finally[s][p] \in Range(r[s])
                 /\ Fails(s, _finally[s][p])
                 /\ ~Skips(exc_type[s], undos[s][_finally[s][q]].autoCommit))
                => _finally[s][q] \in Range(r[s])

\* C5: on an exit with no exception of the body in which two or more undos
\* raise, the exception raised to the caller is that of the first of them
\* in playback order.
C5_FirstUndoFailureWins ==
    \A s \in Scopes :
        (Closed(s) /\ exc_type[s] = NoExc /\ Len(FailedIn(s, r[s])) >= 2)
        => raised[s] = Call(undos[s][Head(FailedIn(s, r[s]))], Head(FailedIn(s, r[s])))

\* C6: an undo with the auto-commit flag is not invoked by an exit without
\* an exception of the body and is invoked by an exit with one; an undo
\* without the flag is invoked by both.
C6_AutoCommitSkippedOnlyOnCleanExit ==
    \A s \in Scopes :
        Closed(s) =>
            \A n \in 1..Len(_finally[s]) :
                LET ref == _finally[s][n] IN
                    ref \in Range(r[s])
                    <=> ~(undos[s][ref].autoCommit /\ exc_type[s] = NoExc)

\* C7: whether the for loop skips an auto-committing undo depends on the
\* exception of the body alone: of the entries the loop has taken, one with
\* the flag was invoked exactly if the body raised, also when an undo
\* before it has raised.
C7_SkipDependsOnIncomingOnly ==
    \A s \in Scopes :
        pc[s] \in {"draining", "closed"} =>
            \A n \in 1..i[s] :
                LET ref == _finally[s][n] IN
                    undos[s][ref].autoCommit
                    => (ref \in Range(r[s]) <=> exc_type[s] # NoExc)

C7_Witness ==
    \E s \in Scopes :
        /\ Closed(s) /\ exc_type[s] = NoExc
        /\ i[s] = Len(_finally[s])
        /\ \E p, q \in 1..Len(_finally[s]) :
            /\ p < q
            /\ _finally[s][p] \in Range(r[s])
            /\ undoExcInfo[s] = Call(undos[s][_finally[s][p]], _finally[s][p])
            /\ undoExcInfo[s] # NoExc
            /\ undos[s][_finally[s][q]].autoCommit
            /\ _finally[s][q] \notin Range(r[s])

\* C8: commitAll invokes no undo and empties the list; an undo that was
\* registered before a commitAll is never invoked afterwards, by a clean
\* exit or by one with an exception of the body.
C8_CommittedNeverInvoked ==
    \A s \in Scopes :
        \A ref \in Range(r[s]) \cup Range(_finally[s]) : ref > committed[s]

C8_Witness ==
    \E s \in Scopes :
        /\ Closed(s) /\ exc_type[s] = BlockExc
        /\ committed[s] = Len(undos[s]) /\ committed[s] >= 2
        /\ r[s] = <<>>

\* C9: when the body raises after k registrations and no commitAll, the
\* exit invokes exactly those k undos, each once, whatever their flags.
C9_ExactlyTheRegistered ==
    \A s \in Scopes :
        (Closed(s) /\ exc_type[s] # NoExc /\ committed[s] = 0)
        => /\ Len(r[s]) = Len(undos[s])
           /\ Range(r[s]) = 1..Len(undos[s])

\* C10, as stated: an undo registered with pushBottom is invoked after the
\* undos registered before it and after those later registered with push,
\* and before the pushBottom-registered undos added earlier.
C10_BottomBeforeEarlierBottoms ==
    \A s \in Scopes :
        \A b \in Range(Registered(s, FALSE)) : \A a \in 1..Len(undos[s]) :
            /\ a < b => Before(r[s], a, b)
            /\ (a > b /\ toTops[s][a]) => Before(r[s], a, b)
            /\ (a < b /\ ~toTops[s][a]) => Before(r[s], b, a)

\* C10, amended: an undo registered with pushBottom is invoked after the
\* undos registered before it and after those later registered with push,
\* and before the pushBottom-registered undos added later.
C10_BottomAfterAllButLaterBottoms ==
    \A s \in Scopes :
        \A b \in Range(Registered(s, FALSE)) : \A a \in 1..Len(undos[s]) :
            /\ a < b => Before(r[s], a, b)
            /\ (a > b /\ toTops[s][a]) => Before(r[s], a, b)
            /\ (a > b /\ ~toTops[s][a]) => Before(r[s], b, a)

C10_Witness ==
    \E s \in Scopes :
        /\ Closed(s)
        /\ toTops[s] = <<FALSE, TRUE, FALSE>>
        /\ r[s] = <<2, 1, 3>>

----------------------------------------------------------------------------
\* The entries of q above c, in the order of q.
RECURSIVE Above(_, _)
Above(q, c) ==
    IF q = <<>> THEN <<>>
    ELSE IF Head(q) > c THEN <<Head(q)>> \o Above(Tail(q), c)
    ELSE Above(Tail(q), c)

\* The undos instance s registered since its last commitAll, in playback
\* order: the pushed ones, latest first, then the pushBottom ones, earliest
\* first.
SinceCommit(s) ==
    Reverse(Above(Registered(s, TRUE), committed[s]))
    \o Above(Registered(s, FALSE), committed[s])

\* C11, as stated: once the exit has completed the undo list is empty.
C11_ListEmptyAfterExit ==
    \A s \in Scopes : Closed(s) => _finally[s] = <<>>

\* C11, amended: the exit only iterates the undo list; once it has
\* completed the list still holds every undo registered since the last
\* commitAll, in playback order, and is empty only if there is none.
C11_ListKeptAfterExit ==
    \A s \in Scopes : Closed(s) => _finally[s] = SinceCommit(s)

C11_Witness ==
    \E s \in Scopes :
        /\ Closed(s) /\ exc_type[s] = NoExc
        /\ i[s] = Len(_finally[s])
        /\ committed[s] = 1
        /\ r[s] = <<3, 2>>
        /\ _finally[s] = <<3, 2>>

\* C12: a completed exit raises at most one exception, by the precedence
\* exception of the body > first exception of an invoked undo > none: it
\* raises exactly if the body raised or an invoked undo raised.
C12_PrecedenceOfFailures ==
    \A s \in Scopes :
        Closed(s) =>
            raised[s] =
                IF exc_type[s] # NoExc THEN exc_type[s]
                ELSE IF FailedIn(s, r[s]) # <<>>
                THEN Call(undos[s][Head(FailedIn(s, r[s]))], Head(FailedIn(s, r[s])))
                ELSE NoExc

\* q without the entries equal to x.
RECURSIVE Without(_, _)
Without(q, x) ==
    IF q = <<>> THEN <<>>
    ELSE IF Head(q) = x THEN Without(Tail(q), x)
    ELSE <<Head(q)>> \o Without(Tail(q), x)

\* C13: a step that registers an undo (push or pushBottom) invokes nothing
\* and adds exactly one record to the undo list: the records already there,
\* their order and their flags are as before, the new record's flag is
\* unset, and nothing else of the instance changes.
C13_PushOnlyAddsOneRecord ==
    [][\A s \in Scopes :
        Len(undos'[s]) = Len(undos[s]) + 1 =>
            LET new == Len(undos'[s]) IN
                /\ r'[s] = r[s]
                /\ \A n \in 1..Len(undos[s]) : undos'[s][n] = undos[s][n]
                /\ ~undos'[s][new].autoCommit
                /\ Len(_finally'[s]) = Len(_finally[s]) + 1
                /\ Without(_finally'[s], new) = _finally[s]
                /\ new \notin Range(_finally[s])
                /\ pc'[s] = pc[s] /\ raised'[s] = raised[s]
      ]_vars

C13_Witness ==
    \E s \in Scopes :
        /\ pc[s] = "open" /\ r[s] = <<>>
        /\ Len(undos[s]) = 3
        /\ undos[s][1].autoCommit /\ ~undos[s][2].autoCommit /\ ~undos[s][3].autoCommit
        /\ _finally[s] = <<3, 1, 2>>

\* C14: commitAll leaves the instance open, and after registrations that
\* follow a commitAll (no auto-commit flag) the exit plays back exactly the
\* undos registered since the last commitAll, in playback order.
C14_PlaysBackSinceLastCommit ==
    \A s \in Scopes :
        (Closed(s) /\ NoFlag(s) /\ committed[s] >= 1)
        => r[s] = SinceCommit(s)

\* The for loop of __exit__ as a function: the undos it invokes over the
\* list q of instance s when entered with et; with flags = FALSE, as if no
\* auto-commit flag had been set.
RECURSIVE Played(_, _, _, _)
Played(s, q, et, flags) ==
    IF q = <<>> THEN <<>>
    ELSE LET ref == Head(q)
             u == undos[s][ref]
             e == Call(u, ref)
         IN IF Skips(et, flags /\ u.autoCommit) THEN Played(s, Tail(q), et, flags)
            ELSE IF e # NoExc /\ ~Catches(e.cls) THEN <<ref>>
            ELSE <<ref>> \o Played(s, Tail(q), et, flags)

\* The entries of q whose undo has no auto-commit flag.
RECURSIVE Unflagged(_, _)
Unflagged(s, q) ==
    IF q = <<>> THEN <<>>
    ELSE IF undos[s][Head(q)].autoCommit THEN Unflagged(s, Tail(q))
    ELSE <<Head(q)>> \o Unflagged(s, Tail(q))

\* C15: on a clean exit the undos invoked with some flags set are the undos
\* the same registrations would have invoked with no flag set, less the
\* flagged ones, in the same order.
C15_FlagsOnlyRemove ==
    \A s \in Scopes :
        (Closed(s) /\ exc_type[s] = NoExc)
        => r[s] = Unflagged(s, Played(s, _finally[s], NoExc, FALSE))

\* The call log of a completed exit is what Played computes.
PlayedAgrees ==
    \A s \in Scopes : Closed(s) => r[s] = Played(s, _finally[s], exc_type[s], TRUE)

\* C16: a step that changes auto-commit flags (setAutoCommit on a handle)
\* sets the flag of exactly one record, the one the handle refers to,
\* wherever it stands among the registrations, and leaves the undo list and
\* all else as it was; and the for loop of __exit__ reads that same flag:
\* it invokes an entry exactly if Skips is false of the record's flag.
C16_HandleIsTheRecord ==
    [][\A s \in Scopes :
        /\ (Len(undos'[s]) = Len(undos[s]) /\ undos'[s] # undos[s]) =>
            /\ \E ref \in 1..Len(undos[s]) :
                /\ ~undos[s][ref].autoCommit
                /\ undos'[s] = [undos[s] EXCEPT ![ref].autoCommit = TRUE]
            /\ _finally'[s] = _finally[s]
            /\ r'[s] = r[s] /\ pc'[s] = pc[s]
        /\ i'[s] = i[s] + 1 =>
            LET ref == _finally[s][i'[s]] IN
                IF Skips(exc_type[s], undos[s][ref].autoCommit)
                THEN r'[s] = r[s]
                ELSE r'[s] = Append(r[s], ref)
      ]_vars

C16_Witness ==
    \E s \in Scopes :
        /\ Closed(s) /\ exc_type[s] = NoExc
        /\ Len(undos[s]) = 3
        /\ undos[s][2].autoCommit /\ ~undos[s][1].autoCommit /\ ~undos[s][3].autoCommit
        /\ _finally[s] = <<3, 2, 1>>
        /\ r[s] = <<3, 1>>

\* C17: an exit that has started completes having taken every entry of the
\* undo list once, in list order.
C17_ExitVisitsEveryEntry ==
    \A s \in Scopes : Closed(s) => i[s] = Len(_finally[s])

\* All that instance s holds and all that its exit produced.
View(s) ==
    <<pc[s], undos[s], _finally[s], exc_type[s], i[s], undoExcInfo[s], raised[s], r[s]>>

\* C18: two instances are independent: a step of one instance (push,
\* pushBottom, setAutoCommit, commitAll or a step of its exit), under any
\* interleaving with the other's, changes neither the other's undo list nor
\* its flags nor anything of its playback.
C18_InstancesIndependent ==
    [][\A s, t \in Scopes :
        (s # t /\ View(s)' # View(s)) => View(t)' = View(t)
      ]_vars

\* Instance 2 was used and exited inside the body of instance 1.
C18_Witness ==
    /\ pc[1] = "open" /\ Closed(2)
    /\ _finally[1] = <<1>> /\ undos[1][1].autoCommit /\ r[1] = <<>>
    /\ _finally[2] = <<1>> /\ ~undos[2][1].autoCommit /\ r[2] = <<1>>
    /\ raised[2] = Call(undos[2][1], 1) /\ raised[2] # NoExc

====
